---- MODULE Spec2Model ----
(***************************************************************************)
(* A model of cnn_mnist.py: the model function cnn_model_fn, the training  *)
(* input pipeline generate_input_fn (tf.train.shuffle_batch) and the       *)
(* stages of main (load, train, evaluate, predict, export).                *)
(*                                                                         *)
(* Numbers are fixed point.  A logit is an integer number of eighths;      *)
(* exp and the softmax division round to the nearest representable value,  *)
(* as float32 arithmetic does, so that two different logits can round to   *)
(* the same probability.                                                   *)
(***************************************************************************)
EXTENDS Integers, Sequences, FiniteSets, Bags

\* ------------------------------------------------------------------ bounds
\* BATCH_SIZE = 100 in the source (line 31); the model runs it scaled down.
BATCH_SIZE == 2
\* units=10 / depth=10 in the source; the model runs with fewer classes.
NumClasses == 3
\* Examples in mnist.train and in mnist.test.
TrainSize == 2
TestSize == 3
\* FLAGS.num_steps ranges over 1..MaxSteps.
MaxSteps == 2
\* numpy_input_fn's batch size (its default, 128, scaled down).
EvalBatchSize == 2
\* mnist.test.next_batch(20), scaled down.
PredictSize == 2

Classes == 1..NumClasses
TRAIN == "train"
EVAL == "eval"
PREDICT == "infer"
ModeKeys == {TRAIN, EVAL, PREDICT}

\* An absent (Python None) and a present optional value.
None == <<>>
Some(v) == <<v>>

Min(a, b) == IF a < b THEN a ELSE b
Max(a, b) == IF a > b THEN a ELSE b

RECURSIVE SumSeq(_)
SumSeq(s) == IF s = <<>> THEN 0 ELSE Head(s) + SumSeq(Tail(s))

\* ------------------------------------------------------- the model function
\* The variables of the graph: the weights and biases of the logits layer
\* (the convolution and dense1 variables are folded into the activation).
ParamSpace == [w : [Classes -> 0..1], b : [Classes -> 0..1]]

\* conv1 .. dense1 (lines 42-91): a ReLU activation per example, a function of
\* the image alone; an image is represented by its intensity.
dense(x) == Max(x, 0)

\* tf.layers.dropout(rate=0.4, training=mode == TRAIN) (lines 94-95): when
\* training, a kept activation is scaled by 1/(1-0.4) and a dropped one is 0;
\* otherwise the identity.  keep is the random keep/drop draw of the element.
dropout_always(h, mode, keep) == IF keep THEN (h * 10) \div 6 ELSE 0
dropout(h, mode, keep) ==
  IF mode = TRAIN THEN (IF keep THEN (h * 10) \div 6 ELSE 0) ELSE h

\* tf.layers.dense(inputs=dropout, units=10) (line 101), in eighths.
logits(params, h) == [c \in Classes |-> params.w[c] * h + params.b[c]]

MaxOf(v) == CHOOSE m \in {v[c] : c \in Classes} : \A c \in Classes : v[c] <= m

\* tf.argmax(input=logits, axis=1) (lines 105, 110).  Which of several tied
\* maxima is returned is not specified by the framework: tie is "lowest" or
\* "highest", fixed for a build.
ArgMin(v, tie) ==
  CHOOSE c \in Classes : \A d \in Classes : v[c] <= v[d]
ArgMax(v, tie) ==
  LET top == {c \in Classes : v[c] = MaxOf(v)}
  IN  IF tie = "lowest" THEN CHOOSE c \in top : \A d \in top : c <= d
      ELSE CHOOSE c \in top : \A d \in top : c >= d

\* exp(-d/8) in units of 1/4, rounded to nearest (d >= 0 in eighths).
ExpFix(d) ==
  IF d <= 1 THEN 4 ELSE IF d <= 3 THEN 3 ELSE IF d <= 7 THEN 2
  ELSE IF d <= 16 THEN 1 ELSE 0

RECURSIVE SumOver(_, _)
SumOver(v, S) ==
  IF S = {} THEN 0
  ELSE LET c == CHOOSE c \in S : TRUE IN v[c] + SumOver(v, S \ {c})

\* tf.nn.softmax(logits) (lines 108, 111): exp(l - max) / sum, in units of
\* 1/64, the division rounded to nearest.
softmax(l) ==
  LET e == [c \in Classes |-> ExpFix(MaxOf(l) - l[c])]
      s == SumOver(e, Classes)
  IN  [c \in Classes |-> (2 * 64 * e[c] + s) \div (2 * s)]

\* -log2 of a probability in units of 1/64, rounded up (the cross entropy of
\* one example, lines 118-120).
RECURSIVE NegLog2(_)
NegLog2(p) == IF p >= 64 THEN 0 ELSE IF p = 0 THEN 7 ELSE 1 + NegLog2(2 * p)

\* The logits of every example of a batch; keep[j] is example j's dropout draw.
batch_logits(params, features, mode, keep) ==
  [j \in 1..Len(features) |->
     logits(params, dropout(dense(features[j]), mode, keep[j]))]

\* lines 118-120: the mean cross entropy of the batch against the labels.
loss(lg, labels) ==
  IF Len(lg) = 0 THEN 0
  ELSE SumSeq([j \in 1..Len(lg) |-> NegLog2(softmax(lg[j])[labels[j]])])
         \div Len(lg)

\* lines 103-109: predictions.
predictions(lg, tie) ==
  [classes |-> [j \in 1..Len(lg) |-> ArgMax(lg[j], tie)],
   probabilities |-> [j \in 1..Len(lg) |-> softmax(lg[j])]]

\* cnn_model_fn without the PREDICT branch of line 113: every mode falls
\* through to the loss.
cnn_model_fn_no_predict_return(params, features, labels, mode, keep, tie) ==
  LET lg == batch_logits(params, features, mode, keep)
  IN  [mode |-> mode, predictions |-> None,
       export_outputs |-> None,
       loss |-> Some(loss(lg, labels)),
       train_op |-> IF mode = TRAIN THEN Some("minimize") ELSE None,
       eval_metric_ops |-> IF mode = TRAIN THEN None ELSE Some("accuracy")]

\* cnn_model_fn(features, labels, mode) (lines 36-140): the EstimatorSpec it
\* returns.  params are the graph's variables, keep the dropout draws and tie
\* the build's argmax tie rule.
cnn_model_fn(params, features, labels, mode, keep, tie) ==
  LET lg == batch_logits(params, features, mode, keep)
  IN  IF mode = PREDICT
      THEN [mode |-> mode, predictions |-> Some(predictions(lg, tie)),
            export_outputs |-> Some(predictions(lg, tie)),
            loss |-> None, train_op |-> None, eval_metric_ops |-> None]
      ELSE IF mode = TRAIN
      THEN [mode |-> mode, predictions |-> None, export_outputs |-> None,
            loss |-> Some(loss(lg, labels)),
            train_op |-> Some("minimize"), eval_metric_ops |-> None]
      ELSE [mode |-> mode, predictions |-> None, export_outputs |-> None,
            loss |-> Some(loss(lg, labels)),
            train_op |-> None, eval_metric_ops |-> Some("accuracy")]

\* ------------------------------------------------------------- the state
VARIABLES
  pc,                 \* where main is
  num_steps,          \* FLAGS.num_steps
  tie,                \* the build's argmax tie rule
  disk,               \* FLAGS.data_dir: the sizes of the two splits on disk
  rng,                \* the random seeds' draws: the shuffle of next_batch and
                      \* the initial weights
  mnist,              \* the loaded data sets (line 160), None before
  predict_data_batch, \* line 167
  params,             \* the variables of the live session, None without one
  global_step,        \* the global step of the live session
  checkpoint,         \* the latest checkpoint in FLAGS.model_dir, None if none
  queue,              \* the RandomShuffleQueue of shuffle_batch: a bag
  enqueued,           \* elements the queue runner has enqueued so far
  batch,              \* elements the running dequeue_many has taken so far
  drawn,              \* per training image, how often it has been dequeued
  steps_run,          \* training steps of this train() call
  model_fn_calls,     \* the modes cnn_model_fn has been called with, in order
  stages,             \* the stages of main entered so far, in order
  eval_pos,           \* held-out examples fed to the evaluation so far
  eval_fed,           \* the images fed to the EVAL graph so far, in order
  metric,             \* accuracy's total and count, and the loss sums
  eval_results,       \* line 192, None before
  predict_pos,        \* examples of predict_data_batch predicted so far
  predict_results,    \* the records line 202 has printed
  exported,           \* the SavedModel of line 208, None before
  fn_in,              \* the arguments of a free-standing cnn_model_fn call
  fn_out              \* and what two invocations with them returned

vars == <<pc, num_steps, tie, disk, rng, mnist, predict_data_batch, params,
          global_step, checkpoint, queue, enqueued, batch, drawn, steps_run,
          model_fn_calls, stages, eval_pos, eval_fed, metric,
          eval_results,
          predict_pos, predict_results, exported, fn_in, fn_out>>

train_vars == <<queue, enqueued, batch, drawn, steps_run>>
eval_vars == <<eval_pos, eval_fed, metric, eval_results>>
predict_vars == <<predict_pos, predict_results>>
fn_vars == <<fn_in, fn_out>>
env_vars == <<num_steps, tie, disk, rng>>

\* ------------------------------------------------------------ the data
\* input_data.read_data_sets (line 160): a split is a sequence of examples,
\* image x and label y co-indexed; image i of a split has intensity i.
DataSet(n, shift) ==
  [i \in 1..n |-> [x |-> i, y |-> ((i + shift) % NumClasses) + 1]]

images(ds) == [i \in 1..Len(ds) |-> ds[i].x]
labels(ds) == [i \in 1..Len(ds) |-> ds[i].y]

SeqRange(s) == {s[i] : i \in 1..Len(s)}

\* mnist.test.next_batch(20) (line 167): the first examples of a fresh
\* shuffle of the split, so distinct examples in any order.
NextBatches(ds, k) ==
  {s \in [1..k -> 1..Len(ds)] : \A i, j \in 1..k : s[i] = s[j] => i = j}

\* ------------------------------------------------- generate_input_fn
\* shuffle_batch's arguments, lines 147-149.
capacity == 8 * BATCH_SIZE
\* A min_after_dequeue as large as the capacity.
min_after_dequeue_is_capacity == 8 * BATCH_SIZE
min_after_dequeue == 4 * BATCH_SIZE

QueueSize == BagCardinality(queue)

\* The element the enqueue_many op enqueues next: [X, Y] sliced along the
\* first dimension, pass after pass (lines 144-151).
NextElementShifted(ds, k) ==
  [x |-> ds[(k % Len(ds)) + 1].x, y |-> ds[((k + 1) % Len(ds)) + 1].y]
NextElement(ds, k) ==
  [x |-> ds[(k % Len(ds)) + 1].x, y |-> ds[(k % Len(ds)) + 1].y]

\* The queue after a random dequeue of element e.
AfterDequeueKept(q, e) == q
AfterDequeue(q, e) == q (-) SetToBag({e})

\* optimizer.minimize(loss, global_step) (lines 128-131): one Adam step on
\* the batch.  The step raises the bias of every class that labels an example
\* of the batch (the sign of the cross entropy gradient), saturating.
minimize(p, lbls) ==
  [p EXCEPT !.b = [c \in Classes |->
                     IF c \in SeqRange(lbls) THEN Min(p.b[c] + 1, 1)
                     ELSE p.b[c]]]

\* ---------------------------------------------------------------- main
Enter(stage) == stages' = Append(stages, stage)
Call(mode) == model_fn_calls' = Append(model_fn_calls, mode)

\* Estimator restores the latest checkpoint of model_dir into a new session.
Restored == Some(checkpoint[1].params)

\* lines 160-167: read the data sets and draw the prediction batch.
Load ==
  /\ pc = "load"
  /\ Enter("load")
  /\ mnist' = Some([train |-> DataSet(disk.train, 0),
                    test |-> DataSet(disk.test, 1)])
  /\ predict_data_batch' =
       [i \in 1..PredictSize |-> DataSet(disk.test, 1)[rng.next_batch[i]]]
  /\ pc' = "train"
  /\ UNCHANGED <<env_vars, params, global_step, checkpoint, train_vars,
                 model_fn_calls, eval_vars, predict_vars, exported, fn_vars>>

\* lines 170-184, entering mnist_classifier.train: the input function builds
\* the shuffle queue, cnn_model_fn builds the TRAIN graph, and the session
\* initialises the variables (random weights, zero biases: model_dir is new).
TrainBegin ==
  /\ pc = "train"
  /\ Enter("train")
  /\ Call(TRAIN)
  /\ params' = Some([w |-> rng.init_w, b |-> [c \in Classes |-> 0]])
  /\ global_step' = 0
  /\ queue' = EmptyBag
  /\ enqueued' = 0
  /\ batch' = <<>>
  /\ steps_run' = 0
  /\ drawn' = [i \in 1..disk.train |-> 0]
  /\ pc' = "training"
  /\ UNCHANGED <<env_vars, mnist, predict_data_batch, checkpoint,
                 eval_vars, predict_vars, exported, fn_vars>>

\* The queue runner's thread: the enqueue_many op puts the next element of
\* [X, Y] into the queue while there is room, pass after pass.
Enqueue ==
  /\ pc = "training"
  /\ QueueSize < capacity
  /\ queue' = queue (+) SetToBag({NextElement(mnist[1].train, enqueued)})
  /\ enqueued' = enqueued + 1
  /\ UNCHANGED <<pc, env_vars, mnist, predict_data_batch, params, global_step,
                 checkpoint, batch, drawn, steps_run,
                 model_fn_calls, stages, eval_vars, predict_vars, exported,
                 fn_vars>>

\* dequeue_many(batch_size) of the training step in progress: it takes one
\* element at random while more than min_after_dequeue elements are queued.
Dequeue ==
  /\ pc = "training"
  /\ steps_run < num_steps
  /\ Len(batch) < BATCH_SIZE
  /\ QueueSize > min_after_dequeue
  /\ \E e \in BagToSet(queue) :
       /\ queue' = AfterDequeue(queue, e)
       /\ batch' = Append(batch, e)
       /\ drawn' = [drawn EXCEPT ![e.x] = @ + 1]
  /\ UNCHANGED <<pc, env_vars, mnist, predict_data_batch, params, global_step,
                 checkpoint, enqueued, steps_run, model_fn_calls,
                 stages, eval_vars, predict_vars, exported, fn_vars>>

\* One training step (lines 126-133, 152): the dequeued batch is split into
\* image_batch and label_batch, the TRAIN graph computes the loss under a
\* fresh dropout draw, and train_op applies the update and counts the step.
TrainStep ==
  /\ pc = "training"
  /\ steps_run < num_steps
  /\ Len(batch) = BATCH_SIZE
  /\ \E keep \in [1..Len(batch) -> BOOLEAN] :
       LET es == cnn_model_fn(params[1], images(batch), labels(batch), TRAIN,
                              keep, tie)
       IN  /\ es.train_op # None
           /\ params' = Some(minimize(params[1], labels(batch)))
  /\ global_step' = global_step + 1
  /\ steps_run' = steps_run + 1
  /\ batch' = <<>>
  /\ UNCHANGED <<pc, env_vars, mnist, predict_data_batch, checkpoint, queue,
                 enqueued, drawn, model_fn_calls, stages, eval_vars,
                 predict_vars, exported, fn_vars>>

\* A main that goes from training straight to prediction.
TrainEndSkipsEvaluate ==
  /\ pc = "training"
  /\ steps_run = num_steps
  /\ checkpoint' = Some([params |-> params[1], global_step |-> global_step])
  /\ params' = None
  /\ queue' = EmptyBag
  /\ pc' = "predict"
  /\ UNCHANGED <<env_vars, mnist, predict_data_batch, global_step, enqueued,
                 batch, drawn, steps_run, model_fn_calls, stages,
                 eval_vars, predict_vars, exported, fn_vars>>

\* train() returns (line 184): the last checkpoint is saved and the session,
\* with its queue and its runner, is closed.
TrainEnd ==
  /\ pc = "training"
  /\ steps_run = num_steps
  /\ checkpoint' = Some([params |-> params[1], global_step |-> global_step])
  /\ params' = None
  /\ queue' = EmptyBag
  /\ pc' = "evaluate"
  /\ UNCHANGED <<env_vars, mnist, predict_data_batch, global_step, enqueued,
                 batch, drawn, steps_run, model_fn_calls, stages,
                 eval_vars, predict_vars, exported, fn_vars>>

\* numpy_input_fn(num_epochs=1, shuffle=False) (lines 187-191, 195-199): the
\* length of the batch that starts after pos of n examples; the last batch
\* holds what is left.
input_batch_len_full_only(pos, n) ==
  IF n - pos >= EvalBatchSize THEN EvalBatchSize ELSE 0
input_batch_len(pos, n) == Min(EvalBatchSize, n - pos)

Slice(s, pos, k) == [j \in 1..k |-> s[pos + j]]
AllKept(k) == [j \in 1..k |-> TRUE]

\* tf.metrics.accuracy(labels, predictions["classes"]) (lines 136-138): the
\* number of examples of the batch whose class is its label.
Correct(classes, lbls) ==
  Cardinality({j \in 1..Len(lbls) : classes[j] = lbls[j]})

\* lines 187-192, entering mnist_classifier.evaluate: cnn_model_fn builds the
\* EVAL graph, the checkpoint is restored and the metric variables are zero.
EvaluateBegin ==
  /\ pc = "evaluate"
  /\ Enter("evaluate")
  /\ Call(EVAL)
  /\ params' = Restored
  /\ global_step' = checkpoint[1].global_step
  /\ eval_pos' = 0
  /\ eval_fed' = <<>>
  /\ metric' = [total |-> 0, count |-> 0, loss_sum |-> 0, batches |-> 0]
  /\ pc' = "evaluating"
  /\ UNCHANGED <<env_vars, mnist, predict_data_batch, checkpoint, train_vars,
                 eval_results, predict_vars, exported, fn_vars>>

\* One evaluation step that also runs the optimizer's update.
EvalBatchTraining ==
  /\ pc = "evaluating"
  /\ input_batch_len(eval_pos, Len(mnist[1].test)) > 0
  /\ LET k == input_batch_len(eval_pos, Len(mnist[1].test))
         lbls == Slice(labels(mnist[1].test), eval_pos, k)
     IN  /\ params' = Some(minimize(params[1], lbls))
         /\ global_step' = global_step + 1
         /\ eval_pos' = eval_pos + k
  /\ UNCHANGED <<pc, env_vars, mnist, predict_data_batch, checkpoint,
                 train_vars, model_fn_calls, stages, eval_fed, metric,
                 eval_results,
                 predict_vars, exported, fn_vars>>

\* One evaluation step: the next batch of the held-out split, in order, goes
\* through the EVAL graph, which updates the metric variables only.
EvalBatch ==
  /\ pc = "evaluating"
  /\ input_batch_len(eval_pos, Len(mnist[1].test)) > 0
  /\ LET k == input_batch_len(eval_pos, Len(mnist[1].test))
         x == Slice(images(mnist[1].test), eval_pos, k)
         lbls == Slice(labels(mnist[1].test), eval_pos, k)
         es == cnn_model_fn(params[1], x, lbls, EVAL, AllKept(k), tie)
         classes ==
           predictions(batch_logits(params[1], x, EVAL, AllKept(k)), tie).classes
     IN  /\ es.eval_metric_ops # None
         /\ metric' = [total |-> metric.total + Correct(classes, lbls),
                       count |-> metric.count + k,
                       loss_sum |-> metric.loss_sum + es.loss[1],
                       batches |-> metric.batches + 1]
         /\ eval_fed' = eval_fed \o x
         /\ eval_pos' = eval_pos + k
  /\ UNCHANGED <<pc, env_vars, mnist, predict_data_batch, params, global_step,
                 checkpoint, train_vars, model_fn_calls, stages, eval_results,
                 predict_vars, exported, fn_vars>>

\* evaluate() returns (lines 192-193): the input is exhausted; accuracy is
\* total / count, kept as the pair, and the session is closed.
EvaluateEnd ==
  /\ pc = "evaluating"
  /\ input_batch_len(eval_pos, Len(mnist[1].test)) = 0
  /\ eval_results' = Some([accuracy |-> <<metric.total, metric.count>>,
                           loss |-> <<metric.loss_sum, metric.batches>>,
                           global_step |-> global_step])
  /\ params' = None
  /\ pc' = "predict"
  /\ UNCHANGED <<env_vars, mnist, predict_data_batch, global_step, checkpoint,
                 train_vars, model_fn_calls, stages, eval_pos, eval_fed,
                 metric, predict_vars, exported, fn_vars>>

\* lines 195-201, mnist_classifier.predict and the first next() of its
\* generator: cnn_model_fn builds the PREDICT graph (without labels) and the
\* checkpoint is restored.
PredictBegin ==
  /\ pc = "predict"
  /\ Enter("predict")
  /\ Call(PREDICT)
  /\ params' = Restored
  /\ global_step' = checkpoint[1].global_step
  /\ predict_pos' = 0
  /\ predict_results' = <<>>
  /\ pc' = "predicting"
  /\ UNCHANGED <<env_vars, mnist, predict_data_batch, checkpoint, train_vars,
                 eval_vars, exported, fn_vars>>

\* lines 201-202: the next batch of predict_data_batch goes through the
\* PREDICT graph and one record per example is printed.
PredictBatch ==
  /\ pc = "predicting"
  /\ input_batch_len(predict_pos, Len(predict_data_batch)) > 0
  /\ LET k == input_batch_len(predict_pos, Len(predict_data_batch))
         x == Slice(images(predict_data_batch), predict_pos, k)
         lbls == Slice(labels(predict_data_batch), predict_pos, k)
         es == cnn_model_fn(params[1], x, lbls, PREDICT, AllKept(k), tie)
     IN  /\ es.predictions # None
         /\ predict_results' = predict_results \o
              [j \in 1..k |->
                 [classes |-> es.predictions[1].classes[j],
                  probabilities |-> es.predictions[1].probabilities[j]]]
         /\ predict_pos' = predict_pos + k
  /\ UNCHANGED <<pc, env_vars, mnist, predict_data_batch, params, global_step,
                 checkpoint, train_vars, model_fn_calls, stages, eval_vars,
                 exported, fn_vars>>

\* The generator is exhausted (line 201 ends) and its session is closed.
PredictEnd ==
  /\ pc = "predicting"
  /\ input_batch_len(predict_pos, Len(predict_data_batch)) = 0
  /\ params' = None
  /\ pc' = "export"
  /\ UNCHANGED <<env_vars, mnist, predict_data_batch, global_step, checkpoint,
                 train_vars, model_fn_calls, stages, eval_vars, predict_vars,
                 exported, fn_vars>>

\* An export that writes the variables as initialised (the biases zero)
\* instead of the restored checkpoint.
ExportUnrestored ==
  /\ pc = "export"
  /\ Enter("export")
  /\ Call(PREDICT)
  /\ exported' = Some([params |-> [checkpoint[1].params EXCEPT
                                     !.b = [c \in Classes |-> 0]],
                       inputs |-> {"x"}])
  /\ pc' = "done"
  /\ UNCHANGED <<env_vars, mnist, predict_data_batch, params, global_step,
                 checkpoint, train_vars, eval_vars, predict_vars, fn_vars>>

\* lines 205-208, export_savedmodel: cnn_model_fn builds the serving graph in
\* PREDICT mode on the placeholder of serving_input_receiver_fn, the
\* checkpoint is restored into it and the bundle is written; main returns.
Export ==
  /\ pc = "export"
  /\ Enter("export")
  /\ Call(PREDICT)
  /\ exported' = Some([params |-> checkpoint[1].params, inputs |-> {"x"}])
  /\ pc' = "done"
  /\ UNCHANGED <<env_vars, mnist, predict_data_batch, params, global_step,
                 checkpoint, train_vars, eval_vars, predict_vars, fn_vars>>

\* The default serving signature of the loaded bundle applied to features
\* (line 115): the export outputs of the PREDICT graph.
Serve(bundle, features) ==
  cnn_model_fn(bundle.params, features, <<>>, PREDICT,
               AllKept(Len(features)), tie).export_outputs[1]

\* -------------------------------------------------- the specifications
Ties == {"lowest", "highest"}

\* The state when main starts, with the flags, the data on disk, the build
\* and the random draws taken from the given sets.
Start(steps, trains, tests, ties, weights, shuffled) ==
  /\ pc = "load"
  /\ num_steps \in steps
  /\ tie \in ties
  /\ disk \in [train : trains, test : tests]
  /\ rng \in [next_batch :
                IF shuffled THEN NextBatches(DataSet(disk.test, 1), PredictSize)
                ELSE {[i \in 1..PredictSize |-> i]},
              init_w : weights]
  /\ mnist = None
  /\ predict_data_batch = <<>>
  /\ params = None
  /\ global_step = 0
  /\ checkpoint = None
  /\ queue = EmptyBag
  /\ enqueued = 0
  /\ batch = <<>>
  /\ drawn = <<>>
  /\ steps_run = 0
  /\ model_fn_calls = <<>>
  /\ stages = <<>>
  /\ eval_pos = 0
  /\ eval_fed = <<>>
  /\ metric = [total |-> 0, count |-> 0, loss_sum |-> 0, batches |-> 0]
  /\ eval_results = None
  /\ predict_pos = 0
  /\ predict_results = <<>>
  /\ exported = None

\* Every held-out split, build, shuffle and initialisation; one training step
\* on a training split of one example.
Init ==
  /\ Start({1}, {1}, PredictSize..TestSize, Ties, [Classes -> 0..1], TRUE)
  /\ fn_in = None
  /\ fn_out = None

\* Every step count and training split; one held-out split, build, shuffle
\* and initialisation.
TrainInit ==
  /\ Start(1..MaxSteps, 1..TrainSize, {PredictSize}, {"lowest"},
           {[c \in Classes |-> c % 2]}, FALSE)
  /\ fn_in = None
  /\ fn_out = None

Next ==
  \/ Load
  \/ TrainBegin
  \/ Enqueue
  \/ Dequeue
  \/ TrainStep
  \/ TrainEnd
  \/ EvaluateBegin
  \/ EvalBatch
  \/ EvaluateEnd
  \/ PredictBegin
  \/ PredictBatch
  \/ PredictEnd
  \/ Export

Spec == Init /\ [][Next]_vars

\* cnn_model_fn on its own: two invocations with the same variables, batch,
\* labels and mode, each with its own dropout draws.  softmax_tensor is the
\* tensor of that name (line 108), which the logging hook reads in any mode.
Invoke ==
  /\ fn_in # None
  /\ fn_out = None
  /\ \E mode \in ModeKeys, keep1, keep2 \in [1..Len(fn_in[1].features) -> BOOLEAN] :
       LET a == fn_in[1]
           sm(keep) == [j \in 1..Len(a.features) |->
                          softmax(batch_logits(a.params, a.features, mode, keep)[j])]
       IN  fn_out' = Some(
             [mode |-> mode,
              keep |-> <<keep1, keep2>>,
              first |-> cnn_model_fn(a.params, a.features, a.labels, mode, keep1, tie),
              second |-> cnn_model_fn(a.params, a.features, a.labels, mode, keep2, tie),
              softmax_tensor |-> <<sm(keep1), sm(keep2)>>])
  /\ UNCHANGED <<pc, env_vars, mnist, predict_data_batch, params, global_step,
                 checkpoint, train_vars, model_fn_calls, stages, eval_vars,
                 predict_vars, exported, fn_in>>

\* Every variable value, batch of two images and build; one label pair.
FnInit ==
  /\ Start({1}, {1}, {PredictSize}, Ties, {[c \in Classes |-> 0]}, FALSE)
  /\ fn_in \in {Some(a) : a \in [params : ParamSpace,
                                  features : [1..2 -> 0..1],
                                  labels : {<<1, NumClasses>>}]}
  /\ fn_out = None

FnNext == Invoke

FnSpec == FnInit /\ [][FnNext]_vars

TrainSpec == TrainInit /\ [][Next]_vars

\* Every step count, over a training split of one example, which the queue
\* runner has to enqueue again and again for a single batch to fill.
LiveInit ==
  /\ Start(1..MaxSteps, {1}, {PredictSize}, {"lowest"},
           {[c \in Classes |-> c % 2]}, FALSE)
  /\ fn_in = None
  /\ fn_out = None

\* The main thread of the script, up to the return of train().
MainThread == Load \/ TrainBegin \/ Dequeue \/ TrainStep \/ TrainEnd

\* The queue runner's thread and the main thread are both scheduled: neither
\* waits forever while it can take a step.
LiveSpec ==
  /\ LiveInit
  /\ [][Next]_vars
  /\ WF_vars(Enqueue)
  /\ WF_vars(MainThread)

\* ------------------------------------------------------------ the claims
IsPrefix(s, t) == Len(s) <= Len(t) /\ \A i \in 1..Len(s) : s[i] = t[i]

StageSeq == <<"load", "train", "evaluate", "predict", "export">>
Trained == checkpoint # None /\ checkpoint[1].params.b # [c \in Classes |-> 0]

\* Every stage is entered in the order of main, each once, and only after the
\* stage before it has done all of its work; export is the last.
StagesInOrder ==
  /\ IsPrefix(stages, StageSeq)
  /\ Len(stages) >= 3 =>
       steps_run = num_steps /\ checkpoint # None
       /\ checkpoint[1].global_step = num_steps
  /\ Len(stages) >= 4 =>
       eval_results # None /\ eval_pos = disk.test /\ metric.count = disk.test
  /\ Len(stages) >= 5 => Len(predict_results) = PredictSize
  /\ pc = "done" <=> exported # None
  /\ pc = "done" => stages = StageSeq

\* C1 as stated: cnn_model_fn is called in TRAIN mode in the train stage, then
\* once in EVAL mode, then once in PREDICT mode, and never again.
C1_ModesAsStated ==
  StagesInOrder /\ IsPrefix(model_fn_calls, <<TRAIN, EVAL, PREDICT>>)

\* C1 (amended): the stages run in the order load, train, evaluate, predict,
\* export, each once and each after the one before it has finished its whole
\* workload; cnn_model_fn is called once per stage after load: in TRAIN mode
\* by train, in EVAL mode by evaluate, in PREDICT mode by predict and in
\* PREDICT mode once more by export, which builds the serving graph with it.
C1_StagesAndModes ==
  /\ StagesInOrder
  /\ IsPrefix(model_fn_calls, <<TRAIN, EVAL, PREDICT, PREDICT>>)
  /\ Len(model_fn_calls) = Max(Len(stages) - 1, 0)

C1_Witness ==
  /\ pc = "done"
  /\ stages = StageSeq
  /\ model_fn_calls = <<TRAIN, EVAL, PREDICT, PREDICT>>

\* C2: what cnn_model_fn returns is fixed by the mode: TRAIN gives a loss and
\* a train_op and no metric, EVAL a loss and the accuracy metric and no
\* train_op, PREDICT the classes and probabilities of every example and no
\* loss, metric or train_op, whatever the labels are.
C2_OutputsByMode ==
  fn_out # None =>
    LET o == fn_out[1].first
        a == fn_in[1]
        n == Len(a.features)
    IN  /\ o.mode = fn_out[1].mode
        /\ o.mode = TRAIN =>
             o.loss # None /\ o.train_op # None /\ o.eval_metric_ops = None
        /\ o.mode = EVAL =>
             o.loss # None /\ o.eval_metric_ops # None /\ o.train_op = None
        /\ o.mode = PREDICT =>
             /\ o.loss = None /\ o.eval_metric_ops = None /\ o.train_op = None
             /\ o.predictions # None
             /\ DOMAIN o.predictions[1].classes = 1..n
             /\ DOMAIN o.predictions[1].probabilities = 1..n
             /\ \A l \in [1..n -> Classes] :
                  cnn_model_fn(a.params, a.features, l, PREDICT,
                               fn_out[1].keep[1], tie) = o

C2_Witness ==
  /\ fn_out # None
  /\ fn_out[1].mode = PREDICT
  /\ fn_out[1].first.predictions # None

AfterTrainingStepKeepsModel ==
  pc \in {"evaluate", "evaluating", "predict", "predicting", "export", "done"}
    => (/\ checkpoint' = checkpoint
        /\ global_step' = global_step
        /\ params' \in {None, Some(checkpoint[1].params)})

\* C3: after the train stage nothing changes the model: every step of the
\* evaluate, predict and export stages leaves the checkpoint and the global
\* step as they are, and a session of these stages holds the checkpoint's
\* variables.
C3_OnlyTrainingMutates == [][AfterTrainingStepKeepsModel]_vars

C3_Witness ==
  /\ pc = "done"
  /\ Trained
  /\ global_step = num_steps
  /\ eval_results # None

TotalDrawn == SumSeq(drawn)

\* How often training image i is among the first k elements enqueued.
EnqCount(i, k) == (k + disk.train - i) \div disk.train

\* C4 as stated: every block of N consecutive draws holds every training
\* example exactly once, that is, after k*N draws every example has been
\* drawn exactly k times.
C4_EpochsAsStated ==
  pc = "training" /\ TotalDrawn % disk.train = 0 =>
    \A i \in 1..disk.train : drawn[i] = TotalDrawn \div disk.train

\* C4 (amended): the sampling is without replacement from what is queued, not
\* from an epoch: a dequeue removes the copy it draws, so an example has never
\* been drawn more often than the runner has enqueued it, the queue holds
\* exactly the copies enqueued and not yet drawn, and the runner is never more
\* than capacity elements ahead of the draws.
C4_NoReplacementFromQueue ==
  pc = "training" =>
    /\ \A i \in 1..disk.train :
         /\ drawn[i] <= EnqCount(i, enqueued)
         /\ CopiesIn(mnist[1].train[i], queue)
              = EnqCount(i, enqueued) - drawn[i]
    /\ enqueued - TotalDrawn = QueueSize
    /\ QueueSize <= capacity

\* A block of N draws that holds one example twice.
C4_Witness ==
  /\ pc = "training"
  /\ disk.train >= 2
  /\ TotalDrawn = disk.train
  /\ \E i \in 1..disk.train : drawn[i] = 2

\* The held-out examples the checkpoint's model classifies as labelled.
CorrectlyClassified ==
  {i \in 1..disk.test :
     ArgMax(logits(checkpoint[1].params, dense(mnist[1].test[i].x)), tie)
       = mnist[1].test[i].y}

\* C5: the evaluation feeds the held-out split to the EVAL graph once, in
\* dataset order, whatever its size, and reports as accuracy the number of
\* correctly classified examples over the number of examples, a value in
\* [0, 1].
C5_SinglePassAccuracy ==
  /\ pc = "evaluating" =>
       /\ eval_fed = Slice(images(mnist[1].test), 0, eval_pos)
       /\ metric.count = eval_pos
  /\ eval_results # None =>
       /\ eval_fed = images(mnist[1].test)
       /\ eval_results[1].accuracy
            = <<Cardinality(CorrectlyClassified), disk.test>>
       /\ 0 <= eval_results[1].accuracy[1]
       /\ eval_results[1].accuracy[1] <= eval_results[1].accuracy[2]
       /\ eval_results[1].accuracy[2] > 0

\* A finished evaluation of a split whose size is no multiple of the batch
\* size, with some examples right and some wrong.
C5_Witness ==
  /\ eval_results # None
  /\ disk.test % EvalBatchSize # 0
  /\ eval_results[1].accuracy[1] > 0
  /\ eval_results[1].accuracy[1] < eval_results[1].accuracy[2]

PredictCalled == fn_out # None /\ fn_out[1].mode = PREDICT
Returned == fn_out[1].first.predictions[1]
Examples == 1..Len(fn_in[1].features)

\* C6 as stated: the class is the index argmax gives for the probability
\* vector, ties included.
C6_ArgmaxOfProbabilitiesAsStated ==
  PredictCalled =>
    \A j \in Examples :
      Returned.classes[j] = ArgMax(Returned.probabilities[j], tie)

\* C6 (amended): the probability of the predicted class is the maximum of the
\* example's probability vector, and the class is the one index of that
\* maximum when no other class has the same probability; when several
\* probabilities tie for the maximum (which logits that differ by less than
\* the rounding of softmax do) the class is one of the tied indices, not
\* necessarily the one argmax gives for the probability vector.
C6_ClassHasMaxProbability ==
  PredictCalled =>
    \A j \in Examples :
      LET p == Returned.probabilities[j]
          c == Returned.classes[j]
      IN  /\ c \in Classes
          /\ p[c] = MaxOf(p)
          /\ Cardinality({d \in Classes : p[d] = MaxOf(p)}) = 1
               => c = ArgMax(p, tie)

\* A prediction in which two classes tie for the maximum probability.
C6_Witness ==
  /\ PredictCalled
  /\ \E j \in Examples :
       Cardinality({d \in Classes :
          Returned.probabilities[j][d] = MaxOf(Returned.probabilities[j])}) > 1

\* C7: with the variables fixed, two invocations on the same batch in EVAL or
\* PREDICT mode return the same EstimatorSpec, classes and probabilities
\* included, whatever the two dropout draws are.
C7_NonTrainDeterministic ==
  fn_out # None /\ fn_out[1].mode # TRAIN =>
    /\ fn_out[1].first = fn_out[1].second
    /\ fn_out[1].softmax_tensor[1] = fn_out[1].softmax_tensor[2]

\* Two EVAL or PREDICT invocations whose dropout draws differ.
C7_Witness ==
  /\ fn_out # None
  /\ fn_out[1].mode # TRAIN
  /\ fn_out[1].keep[1] # fn_out[1].keep[2]

\* Two TRAIN invocations that differ.
TrainInvocationsDiffer ==
  /\ fn_out # None
  /\ fn_out[1].mode = TRAIN
  /\ fn_out[1].softmax_tensor[1] # fn_out[1].softmax_tensor[2]

\* C8: the bundle export writes holds the variables the predict stage ran
\* with, and its serving signature, given predict_data_batch, returns the
\* classes and probabilities predict printed.
C8_ExportRoundTrip ==
  /\ pc = "predicting" => params = Some(checkpoint[1].params)
  /\ exported # None =>
       /\ exported[1].params = checkpoint[1].params
       /\ LET served == Serve(exported[1], images(predict_data_batch))
          IN  /\ Len(predict_results) = Len(predict_data_batch)
              /\ \A j \in 1..Len(predict_results) :
                   /\ predict_results[j].classes = served.classes[j]
                   /\ predict_results[j].probabilities
                        = served.probabilities[j]

C8_Witness ==
  /\ exported # None
  /\ Trained
  /\ Len(predict_results) = PredictSize

\* C9: under the fairness of LiveSpec the train stage ends, after exactly
\* num_steps optimizer steps, for every num_steps, also when the steps
\* need more examples than the training split holds.
C9_TrainTerminates ==
  <>(pc = "evaluate" /\ steps_run = num_steps /\ global_step = num_steps)

\* A finished training that drew more examples than the split holds.
C9_Witness ==
  /\ pc = "evaluate"
  /\ steps_run = num_steps
  /\ num_steps * BATCH_SIZE > disk.train

InDataSet(e) == \E i \in 1..Len(mnist[1].train) : mnist[1].train[i] = e

\* C10: every training step has consumed a batch of exactly BATCH_SIZE
\* elements (the elements drawn so far are BATCH_SIZE for each step run, plus
\* those of the batch being filled), the batch has as many images as labels,
\* and at every position of the batch the label is the one the data set pairs
\* with the image; so is every element in the queue.
C10_BatchesCoIndexed ==
  pc = "training" =>
    /\ Len(batch) <= BATCH_SIZE
    /\ TotalDrawn = steps_run * BATCH_SIZE + Len(batch)
    /\ Len(images(batch)) = Len(labels(batch))
    /\ \A j \in 1..Len(batch) :
         InDataSet([x |-> images(batch)[j], y |-> labels(batch)[j]])
    /\ \A e \in BagToSet(queue) : InDataSet(e)

\* A full batch of two different examples, ready for a second step.
C10_Witness ==
  /\ pc = "training"
  /\ steps_run >= 1
  /\ Len(batch) = BATCH_SIZE
  /\ \E j, k \in 1..Len(batch) : batch[j] # batch[k]

====
